---- MODULE Spec2Model ----
(***************************************************************************)
(* Model of alerts/geomodel/locality.py: the per-user locality state, the  *)
(* merge of event-sourced states into persisted ones (_update, merge), the *)
(* removal of outdated localities (remove_outdated) and the journal        *)
(* closure that writes entries to ElasticSearch (wrap_journal).            *)
(*                                                                         *)
(* Each function is exercised by its own specification: Init draws the     *)
(* arguments of one call from bounded sets and the action applies the      *)
(* function as the code computes it.                                       *)
(***************************************************************************)
EXTENDS Integers, Sequences, FiniteSets, TLC

VARIABLES
    pc,             \* "ready" before the call, "done" after it ("once" between
                    \* the two passes of remove_outdated)
    error,          \* the exception the call ended with, "none" if it returned
    state0,         \* _update: the `state` argument as it was when passed
    from_evt,       \* _update: the `from_evt` argument
    state,          \* _update: the `state` object (its list is mutated in place)
    did_update,     \* _update: Update.did_update of the returned value
    persisted,      \* merge: the `persisted` argument as it was when passed
    event_sourced,  \* merge: the `event_sourced` argument
    updates,        \* merge: the returned List[Update]
    localities,     \* remove_outdated: the list given to the first pass
    days_valid,     \* remove_outdated: the `days_valid` argument
    clock,          \* remove_outdated: the last value datetime.utcnow() returned
    reads,          \* remove_outdated: per pass, the utcnow() reading per element
    passes,         \* remove_outdated: per pass, the returned list
    entries,        \* journal: the `entries` argument
    esindex,        \* journal: the `esindex` argument
    calls,          \* journal: the client.save_object calls made, in order
    failed_at       \* journal: position of the entry whose write raised, 0 if none

vars == <<pc, error, state0, from_evt, state, did_update, persisted,
          event_sourced, updates, localities, days_valid, clock, reads,
          passes, entries, esindex, calls, failed_at>>

----------------------------------------------------------------------------
(* Bounds of the model. *)

\* longest `state.localities` passed to _update
MaxCur == 1
\* longest `from_evt.localities` passed to _update
MaxEvt == 2
\* longest `persisted` list passed to merge
MaxPersisted == 1
\* number of localities the persisted states passed to merge hold in all
MaxPersistedLocs == 1
\* longest `event_sourced` list passed to merge
MaxObserved == 2
\* number of localities the event-sourced states passed to merge hold in all
MaxObservedLocs == 2
\* utcnow() ranges over 0..MaxClock
MaxClock == 3
\* days_valid ranges over 0..MaxDays
MaxDays == 1
\* longest list passed to remove_outdated
MaxLocs == 2
\* longest `entries` list passed to the journal
MaxEntries == 3

\* datetime values are counted in ticks of half a day
TicksPerDay == 2

----------------------------------------------------------------------------
(* The data model: Locality, State, Entry, Update. *)

Places ==
    { [city |-> "Paris", country |-> "FR", latitude |-> 48, longitude |-> 2],
      [city |-> "Paris", country |-> "US", latitude |-> 33, longitude |-> -95],
      [city |-> "Rome",  country |-> "IT", latitude |-> 41, longitude |-> 12] }

Addresses == {"1.1.1.1", "2.2.2.2"}

Radii == {10, 20}

Usernames == {"alice", "bob"}

\* the lastaction of a locality given to _update or merge
Times == {0, 1}

\* the lastaction of a locality given to remove_outdated
Stamps == {0, 1, 2, 3}

Identifiers == {"None", "id1", "id2"}

Locality(sourceipaddress, place, lastaction, radius) ==
    [sourceipaddress |-> sourceipaddress,
     city            |-> place.city,
     country         |-> place.country,
     lastaction      |-> lastaction,
     latitude        |-> place.latitude,
     longitude       |-> place.longitude,
     radius          |-> radius]

State(username, locs) ==
    [type_ |-> "locality", username |-> username, localities |-> locs]

Entry(identifier, st) == [identifier |-> identifier, state |-> st]

Update(st, flag) == [state |-> st, did_update |-> flag]

\* the sequences over S of length at most n
SeqUpTo(S, n) == UNION { [1..k -> S] : k \in 0..n }

\* the localities _update is called with: Paris (FR) seen from every address
\* at every time with every radius, the other places seen once
UpdateLocalities ==
    { Locality(a, p, t, r) : a \in Addresses, p \in {q \in Places : q.country = "FR"},
                             t \in Times, r \in Radii }
    \cup { Locality("1.1.1.1", p, 0, 10) : p \in Places }

\* the localities merge is called with: Paris (FR) seen at every time, Rome
\* seen once
MergeLocalities ==
    { Locality("1.1.1.1", p, t, 10) :
        p \in { q \in Places : q.country = "FR" }, t \in Times }
    \cup { Locality("1.1.1.1", p, 0, 10) : p \in { q \in Places : q.country = "IT" } }

\* the localities remove_outdated is called with
FilterLocalities ==
    { Locality("1.1.1.1", p, t, 10) :
        p \in { q \in Places : q.country # "US" }, t \in Stamps }

RECURSIVE Batches(_, _, _)
\* the lists of at most n states over the usernames and the localities L that
\* hold at most t localities in all
Batches(L, n, t) ==
    IF n = 0
    THEN { <<>> }
    ELSE { <<>> } \cup
         UNION { { <<State(u, locs)>> \o rest :
                     rest \in Batches(L, n - 1, t - Len(locs)) } :
                 u \in Usernames, locs \in SeqUpTo(L, t) }

NoState == State("", <<>>)

----------------------------------------------------------------------------
(* _update *)

\* `>=` in place of `>`: an equally recent observation overwrites the record
should_replace_or_equal(loc1, loc2) ==
    \/ loc1.lastaction >= loc2.lastaction
    \/ loc1.sourceipaddress # loc2.sourceipaddress

\* the test on the address forgotten
should_replace_recent_only(loc1, loc2) ==
    loc1.lastaction > loc2.lastaction

\* new_more_recent or new_ip
should_replace(loc1, loc2) ==
    \/ loc1.lastaction > loc2.lastaction
    \/ loc1.sourceipaddress # loc2.sourceipaddress

\* the country forgotten in the comparison
same_locality_city_only(loc1, loc2) ==
    loc1.city = loc2.city

\* loc1.city == loc2.city and loc1.country == loc2.country
same_locality(loc1, loc2) ==
    loc1.city = loc2.city /\ loc1.country = loc2.country

\* the inner loop: the index of the first locality of `locs` that loc1
\* matches, 0 when did_find stays False
find_index(locs, loc1) ==
    IF \E i \in 1..Len(locs) : same_locality(loc1, locs[i])
    THEN CHOOSE i \in 1..Len(locs) :
            /\ same_locality(loc1, locs[i])
            /\ \A j \in 1..(i - 1) : ~same_locality(loc1, locs[j])
    ELSE 0

\* one turn of the outer loop on acc = [localities, did_update]
update_one(acc, loc1) ==
    LET index == find_index(acc.localities, loc1) IN
    IF index = 0
    THEN [localities |-> Append(acc.localities, loc1), did_update |-> TRUE]
    ELSE IF should_replace(loc1, acc.localities[index])
         THEN [localities |-> [acc.localities EXCEPT ![index] = loc1],
               did_update |-> TRUE]
         ELSE acc

RECURSIVE update_all(_, _)
\* the outer loop over from_evt.localities, in the order supplied
update_all(acc, evt_locs) ==
    IF evt_locs = <<>>
    THEN acc
    ELSE update_all(update_one(acc, Head(evt_locs)), Tail(evt_locs))

_update(st, evt) ==
    LET r == update_all([localities |-> st.localities, did_update |-> FALSE],
                        evt.localities)
    IN Update([st EXCEPT !.localities = r.localities], r.did_update)

----------------------------------------------------------------------------
(* The variables a specification does not use. *)

IdleUpdate ==
    /\ state0 = NoState /\ from_evt = NoState /\ state = NoState
    /\ did_update = FALSE

IdleMerge ==
    /\ persisted = <<>> /\ event_sourced = <<>> /\ updates = <<>>

IdleOutdated ==
    /\ localities = <<>> /\ days_valid = 0 /\ clock = 0
    /\ reads = <<>> /\ passes = <<>>

IdleJournal ==
    /\ entries = <<>> /\ esindex = "" /\ calls = <<>> /\ failed_at = 0

----------------------------------------------------------------------------
(* Specification of one call of _update. *)

InitUpdate ==
    /\ pc = "ready" /\ error = "none"
    /\ \E u \in Usernames, locs \in SeqUpTo(UpdateLocalities, MaxCur) :
          state0 = State(u, locs)
    /\ \E u \in Usernames, locs \in SeqUpTo(UpdateLocalities, MaxEvt) :
          from_evt = State(u, locs)
    /\ state = state0
    /\ did_update = FALSE
    /\ IdleMerge /\ IdleOutdated /\ IdleJournal

CallUpdate ==
    /\ pc = "ready"
    /\ LET r == _update(state, from_evt) IN
          /\ state' = r.state
          /\ did_update' = r.did_update
    /\ pc' = "done"
    /\ UNCHANGED <<error, state0, from_evt, persisted, event_sourced, updates,
                   localities, days_valid, clock, reads, passes, entries,
                   esindex, calls, failed_at>>

NextUpdate == CallUpdate

SpecUpdate == InitUpdate /\ [][NextUpdate]_vars

----------------------------------------------------------------------------
(* merge *)

\* `mapped` is a Python dict: a sequence of items [key, value] in insertion
\* order, with no key twice

dict_has(mapped, key) == \E i \in 1..Len(mapped) : mapped[i].key = key

dict_get(mapped, key) ==
    mapped[CHOOSE i \in 1..Len(mapped) : mapped[i].key = key].value

\* mapped[key] = value: a present key keeps its place, a new key goes last
dict_set(mapped, key, value) ==
    IF dict_has(mapped, key)
    THEN [i \in 1..Len(mapped) |->
            IF mapped[i].key = key THEN [key |-> key, value |-> value]
                                   ELSE mapped[i]]
    ELSE Append(mapped, [key |-> key, value |-> value])

RECURSIVE dict_from_persisted(_, _)
\* {state.username: Update(state, False) for state in persisted}
dict_from_persisted(mapped, states) ==
    IF states = <<>>
    THEN mapped
    ELSE dict_from_persisted(
            dict_set(mapped, Head(states).username, Update(Head(states), FALSE)),
            Tail(states))

\* the else branch forgotten: a user absent from `persisted` is not inserted
merge_state_known_only(mapped, new_state) ==
    IF dict_has(mapped, new_state.username)
    THEN dict_set(mapped, new_state.username,
                  _update(dict_get(mapped, new_state.username).state, new_state))
    ELSE mapped

\* one turn of the loop over event_sourced
merge_state(mapped, new_state) ==
    IF dict_has(mapped, new_state.username)
    THEN dict_set(mapped, new_state.username,
                  _update(dict_get(mapped, new_state.username).state, new_state))
    ELSE dict_set(mapped, new_state.username, Update(new_state, TRUE))

RECURSIVE merge_all(_, _)
\* the loop over event_sourced, in the order supplied
merge_all(mapped, states) ==
    IF states = <<>>
    THEN mapped
    ELSE merge_all(merge_state(mapped, Head(states)), Tail(states))

\* list(mapped.values())
dict_values(mapped) == [i \in 1..Len(mapped) |-> mapped[i].value]

merge(persisted_states, event_states) ==
    dict_values(merge_all(dict_from_persisted(<<>>, persisted_states),
                          event_states))

----------------------------------------------------------------------------
(* Specification of one call of merge. *)

PersistedLists == Batches(MergeLocalities, MaxPersisted, MaxPersistedLocs)

ObservedLists == Batches(MergeLocalities, MaxObserved, MaxObservedLocs)

InitMerge ==
    /\ pc = "ready" /\ error = "none"
    /\ persisted \in PersistedLists
    /\ event_sourced \in ObservedLists
    /\ updates = <<>>
    /\ IdleUpdate /\ IdleOutdated /\ IdleJournal

CallMerge ==
    /\ pc = "ready"
    /\ updates' = merge(persisted, event_sourced)
    /\ pc' = "done"
    /\ UNCHANGED <<error, state0, from_evt, state, did_update, persisted,
                   event_sourced, localities, days_valid, clock, reads, passes,
                   entries, esindex, calls, failed_at>>

NextMerge == CallMerge

SpecMerge == InitMerge /\ [][NextMerge]_vars

----------------------------------------------------------------------------
(* remove_outdated *)

\* timedelta(days=days)
timedelta(days) == days * TicksPerDay

\* the comparison turned round: the outdated localities are the ones kept
is_valid_reversed(loc, now, days) ==
    loc.lastaction <= now - timedelta(days)

\* loc.lastaction >= datetime.utcnow() - timedelta(days=days_valid)
is_valid(loc, now, days) ==
    loc.lastaction >= now - timedelta(days)

RECURSIVE filter_from(_, _, _, _)
\* the list comprehension from element i on; nows[i] is what utcnow()
\* returns when the condition of element i is evaluated
filter_from(locs, days, nows, i) ==
    IF i > Len(locs)
    THEN <<>>
    ELSE IF is_valid(locs[i], nows[i], days)
         THEN <<locs[i]>> \o filter_from(locs, days, nows, i + 1)
         ELSE filter_from(locs, days, nows, i + 1)

remove_outdated(locs, days, nows) == filter_from(locs, days, nows, 1)

\* the readings n successive calls of utcnow() can return from time `from` on:
\* the clock never runs backwards
ClockReadings(from, n) ==
    { nows \in [1..n -> from..MaxClock] :
        \A i \in 1..(n - 1) : nows[i] <= nows[i + 1] }

----------------------------------------------------------------------------
(* Specification of a pass of remove_outdated over a list and of a second  *)
(* pass over the list the first returned.                                  *)

InitOutdated ==
    /\ pc = "ready" /\ error = "none"
    /\ localities \in SeqUpTo(FilterLocalities, MaxLocs)
    /\ days_valid \in 0..MaxDays
    /\ clock \in 0..MaxClock
    /\ reads = <<>> /\ passes = <<>>
    /\ IdleUpdate /\ IdleMerge /\ IdleJournal

\* remove_outdated(arg, days_valid), utcnow() read once per element
Pass(arg) ==
    \E nows \in ClockReadings(clock, Len(arg)) :
        /\ passes' = Append(passes, remove_outdated(arg, days_valid, nows))
        /\ reads' = Append(reads, nows)
        /\ clock' = IF nows = <<>> THEN clock ELSE nows[Len(nows)]

CallRemoveOutdated ==
    /\ pc = "ready"
    /\ Pass(localities)
    /\ pc' = "once"
    /\ UNCHANGED <<error, state0, from_evt, state, did_update, persisted,
                   event_sourced, updates, localities, days_valid, entries,
                   esindex, calls, failed_at>>

CallRemoveOutdatedAgain ==
    /\ pc = "once"
    /\ Pass(passes[1])
    /\ pc' = "done"
    /\ UNCHANGED <<error, state0, from_evt, state, did_update, persisted,
                   event_sourced, updates, localities, days_valid, entries,
                   esindex, calls, failed_at>>

NextOutdated == CallRemoveOutdated \/ CallRemoveOutdatedAgain

SpecOutdated == InitOutdated /\ [][NextOutdated]_vars

----------------------------------------------------------------------------
(* wrap_journal *)

\* dict(entry.state._asdict())
document(st) ==
    [type_ |-> st.type_, username |-> st.username, localities |-> st.localities]

\* client.save_object(index=esindex, body=document, doc_id=entry.identifier)
save_object(index, entry) ==
    [index |-> index, body |-> document(entry.state), doc_id |-> entry.identifier]

\* the calls the loop of `wrapper` makes when the store raises on the write
\* of entry `failing` (0: on none): the exception leaves the loop
wrapper(entry_list, index, failing) ==
    LET last == IF failing = 0 THEN Len(entry_list) ELSE failing IN
    [i \in 1..last |-> save_object(index, entry_list[i])]

JournalStates ==
    { State(u, locs) : u \in Usernames,
                       locs \in SeqUpTo({Locality("1.1.1.1", p, 0, 10) :
                                           p \in {q \in Places : q.city = "Rome"}}, 1) }

JournalEntries == { Entry(id, st) : id \in Identifiers, st \in JournalStates }

----------------------------------------------------------------------------
(* Specification of one call of the journal returned by wrap_journal.      *)

InitJournal ==
    /\ pc = "ready" /\ error = "none"
    /\ entries \in SeqUpTo(JournalEntries, MaxEntries)
    /\ esindex = "localities"
    /\ calls = <<>> /\ failed_at = 0
    /\ IdleUpdate /\ IdleMerge /\ IdleOutdated

\* every save_object call either returns or raises
CallJournal ==
    /\ pc = "ready"
    /\ \E failing \in 0..Len(entries) :
          /\ calls' = wrapper(entries, esindex, failing)
          /\ failed_at' = failing
          /\ error' = IF failing = 0 THEN "none" ELSE "StoreError"
    /\ pc' = "done"
    /\ UNCHANGED <<state0, from_evt, state, did_update, persisted,
                   event_sourced, updates, localities, days_valid, clock, reads,
                   passes, entries, esindex>>

NextJournal == CallJournal

SpecJournal == InitJournal /\ [][NextJournal]_vars

----------------------------------------------------------------------------
(* Vocabulary of the properties. *)

KeyOf(loc) == <<loc.city, loc.country>>

\* the position of the first locality of `locs` with key k, 0 if there is none
FirstWithKey(locs, k) ==
    IF \E i \in 1..Len(locs) : KeyOf(locs[i]) = k
    THEN CHOOSE i \in 1..Len(locs) :
            /\ KeyOf(locs[i]) = k
            /\ \A j \in 1..(i - 1) : KeyOf(locs[j]) # k
    ELSE 0

NoDuplicateKeys(locs) ==
    \A i, j \in 1..Len(locs) : i # j => KeyOf(locs[i]) # KeyOf(locs[j])

UsernamesOf(states) == { states[i].username : i \in 1..Len(states) }

UpdateReturned == pc = "done" /\ state0.username = from_evt.username

\* inc[j] is the last locality of inc with its key, and not the only one
LastOfSeveral(inc, j) ==
    /\ \E j1 \in 1..(j - 1) : KeyOf(inc[j1]) = KeyOf(inc[j])
    /\ \A j2 \in (j + 1)..Len(inc) : KeyOf(inc[j2]) # KeyOf(inc[j])

\* every utcnow() reading of pass k was `now`
ReadAt(k, now) == \A i \in 1..Len(reads[k]) : reads[k][i] = now

----------------------------------------------------------------------------
(* Properties of merge. *)

\* C1: a username that does not occur in `persisted` is returned by merge
\* with did_update = True, whatever the event-sourced states that carry it.
C1_NewUserIsChanged ==
    pc = "done" =>
        \A i \in 1..Len(updates) :
            updates[i].state.username \notin UsernamesOf(persisted)
                => updates[i].did_update = TRUE

\* C2: every result of merge with did_update = False holds exactly the
\* localities `persisted` held for that username before the call.
C2_UnchangedIsPersisted ==
    pc = "done" =>
        \A i \in 1..Len(updates) :
            updates[i].did_update = FALSE =>
                \/ /\ updates[i].state.username \notin UsernamesOf(persisted)
                   /\ updates[i].state.localities = <<>>
                \/ \E j \in 1..Len(persisted) :
                      /\ persisted[j].username = updates[i].state.username
                      /\ persisted[j].localities = updates[i].state.localities

\* C4: when no persisted state repeats a (city, country) pair, no state
\* returned by merge repeats one.
C4_MergeKeepsKeysUnique ==
    (pc = "done" /\ \A j \in 1..Len(persisted) :
                        NoDuplicateKeys(persisted[j].localities))
        => \A i \in 1..Len(updates) :
               NoDuplicateKeys(updates[i].state.localities)

\* C7: merge returns exactly one result per distinct username: the usernames
\* of the results are those of `persisted` and `event_sourced`, and no two
\* results carry the same one.
C7_OneResultPerUsername ==
    pc = "done" =>
        /\ { updates[i].state.username : i \in 1..Len(updates) }
              = UsernamesOf(persisted) \cup UsernamesOf(event_sourced)
        /\ \A i, j \in 1..Len(updates) :
              i # j => updates[i].state.username # updates[j].state.username

\* merge has returned two results from three input states: one username
\* occurred twice in the input
C7_Witness ==
    /\ pc = "done"
    /\ Len(persisted) + Len(event_sourced) = 3
    /\ Len(updates) = 2
    /\ UsernamesOf(persisted) \cap UsernamesOf(event_sourced) # {}

----------------------------------------------------------------------------
(* Properties of _update. *)

\* C3: _update called with states whose usernames differ fails with an
\* InvariantViolationError and leaves the localities of `state` unchanged.
C3_MismatchedUsernamesRaise ==
    (pc = "done" /\ state0.username # from_evt.username)
        => /\ error = "InvariantViolationError"
           /\ state.localities = state0.localities

\* C5: for states with equal usernames, _update never removes a locality and
\* never changes the (city, country) key of one: the list is at least as long
\* as before and every position that existed holds the same key as before.
C5_NeverRemovesNorRekeys ==
    UpdateReturned =>
        /\ Len(state.localities) >= Len(state0.localities)
        /\ \A i \in 1..Len(state0.localities) :
              /\ state.localities[i].city = state0.localities[i].city
              /\ state.localities[i].country = state0.localities[i].country

\* _update has replaced the locality at position 1 and appended another
C5_Witness ==
    /\ UpdateReturned
    /\ Len(state0.localities) >= 1
    /\ state.localities[1] # state0.localities[1]
    /\ Len(state.localities) > Len(state0.localities)

\* C6: an incoming locality L that matches the existing locality M on
\* (city, country) replaces M exactly when L.lastaction > M.lastaction or
\* L.sourceipaddress # M.sourceipaddress; when every incoming locality matches
\* an existing one with an earlier-or-equal lastaction and the same address,
\* the list is left identical and did_update is False.
C6_ReplacedExactlyOnNews ==
    UpdateReturned =>
        LET cur == state0.localities
            inc == from_evt.localities
            res == state.localities
            Match(j) == FirstWithKey(cur, KeyOf(inc[j]))
            News(j) ==
                \/ inc[j].lastaction > cur[Match(j)].lastaction
                \/ inc[j].sourceipaddress # cur[Match(j)].sourceipaddress
        IN  /\ \A j \in 1..Len(inc) :
                  ( /\ Match(j) > 0
                    /\ \A j2 \in 1..Len(inc) :
                          j2 # j => KeyOf(inc[j2]) # KeyOf(inc[j]) )
                  => res[Match(j)] = IF News(j) THEN inc[j] ELSE cur[Match(j)]
            /\ (\A j \in 1..Len(inc) : Match(j) > 0 /\ ~News(j))
                  => (did_update = FALSE /\ res = cur)

\* _update has left in place a locality that an incoming one of the same key,
\* not more recent, from the same address but otherwise different, matched
C6_Witness ==
    /\ UpdateReturned
    /\ Len(state0.localities) >= 1
    /\ Len(from_evt.localities) >= 1
    /\ \A j \in 1..Len(from_evt.localities) :
          /\ KeyOf(from_evt.localities[j]) = KeyOf(state0.localities[1])
          /\ from_evt.localities[j].lastaction <= state0.localities[1].lastaction
          /\ from_evt.localities[j].sourceipaddress
                = state0.localities[1].sourceipaddress
          /\ from_evt.localities[j] # state0.localities[1]
    /\ did_update = FALSE
    /\ state.localities = state0.localities

\* C10 as stated: when from_evt lists several localities with the same
\* (city, country) pair, the locality `state` holds under that pair after the
\* merge is the last of them.
C10_LastWriteWins ==
    UpdateReturned =>
        LET inc == from_evt.localities
            res == state.localities
        IN  \A j \in 1..Len(inc) :
                LastOfSeveral(inc, j)
                    => res[FirstWithKey(res, KeyOf(inc[j]))] = inc[j]

\* C10 as amended: when from_evt lists several localities with the same
\* (city, country) pair, the locality `state` holds under that pair after the
\* merge has the sourceipaddress of the last of them and a lastaction not
\* earlier than its; it is that last one, an earlier one of them or the one
\* held before the call, and it is the last one whenever that one is strictly
\* more recent than all of these.
C10_LastAddressWins ==
    UpdateReturned =>
        LET cur == state0.localities
            inc == from_evt.localities
            res == state.localities
        IN  \A j \in 1..Len(inc) :
                LastOfSeveral(inc, j) =>
                    LET k == KeyOf(inc[j])
                        held == res[FirstWithKey(res, k)]
                        before == FirstWithKey(cur, k)
                        Earlier == { j1 \in 1..(j - 1) : KeyOf(inc[j1]) = k }
                    IN  /\ held.sourceipaddress = inc[j].sourceipaddress
                        /\ held.lastaction >= inc[j].lastaction
                        /\ \/ held = inc[j]
                           \/ \E j1 \in Earlier : held = inc[j1]
                           \/ before > 0 /\ held = cur[before]
                        /\ ( /\ \A j1 \in Earlier :
                                   inc[j].lastaction > inc[j1].lastaction
                             /\ before > 0 =>
                                   inc[j].lastaction > cur[before].lastaction )
                           => held = inc[j]

\* _update has merged two incoming localities of one key and holds the first
\* of them: the last write did not win
C10_Witness ==
    /\ UpdateReturned
    /\ Len(from_evt.localities) = 2
    /\ LastOfSeveral(from_evt.localities, 2)
    /\ from_evt.localities[1] # from_evt.localities[2]
    /\ state.localities[FirstWithKey(state.localities,
                                     KeyOf(from_evt.localities[2]))]
          = from_evt.localities[1]

----------------------------------------------------------------------------
(* Properties of remove_outdated. *)

\* C8: when every utcnow() reading of two successive passes is the same
\* `now`, the second pass returns the list the first returned, and no
\* locality whose lastaction is more than days_valid days before `now` is in
\* either.
C8_FilterIdempotent ==
    \A now \in 0..MaxClock :
        (pc = "done" /\ ReadAt(1, now) /\ ReadAt(2, now)) =>
            /\ passes[2] = passes[1]
            /\ \A i \in 1..Len(localities) :
                  localities[i].lastaction < now - days_valid * TicksPerDay
                      => \A k \in 1..2 : \A m \in 1..Len(passes[k]) :
                             passes[k][m] # localities[i]

\* two passes at the same time, the first of which dropped one locality and
\* kept another
C8_Witness ==
    /\ pc = "done"
    /\ Len(localities) = 2
    /\ Len(passes[1]) = 1
    /\ Len(reads[2]) = 1
    /\ ReadAt(1, reads[2][1])
    /\ days_valid > 0

----------------------------------------------------------------------------
(* Properties of the journal. *)

\* C9: when the store fails on the write of one entry, every other entry of
\* the collection is still submitted exactly once, under its own identifier.
C9_EntriesIndependent ==
    pc = "done" =>
        /\ Len(calls) = Len(entries)
        /\ \A i \in 1..Len(entries) :
              /\ calls[i].doc_id = entries[i].identifier
              /\ calls[i].body = document(entries[i].state)

====
